---- MODULE Spec2Model ----
(***************************************************************************)
(* Model of crates/hir/src/display.rs: the HirDisplay renderers for        *)
(* declarations, generic parameter lists and where-clauses.                *)
(*                                                                         *)
(* The sink is the sequence of chunks handed to f.write_str / f.write_char *)
(* / write!, in order; the rendered text is their concatenation.  A        *)
(* renderer is a pure function of the declaration's metadata, so a         *)
(* behaviour is: Init draws the declaration and its metadata, one action   *)
(* runs the renderer on it.                                                *)
(***************************************************************************)
EXTENDS Integers, Sequences, FiniteSets, TLC

VARIABLES
    def,      \* which renderer is called on the declaration
    params,   \* db.generic_params(def): lifetimes, type_or_consts, where_predicates
    data,     \* the declaration's own metadata (function data, variant data, ...)
    out,      \* the sink: chunks written so far
    pc,       \* "start" | "done" | "panicked" | "failed"
    fail_at,  \* the write call on which the sink fails (1-based), 0 when it never does
    writes    \* number of write calls made on the sink

vars == <<def, params, data, out, pc, fail_at, writes>>

(***************************************************************************)
(* Bounds of the model.                                                    *)
(***************************************************************************)
MaxPreds == 3        \* where-predicates per declaration
MaxParams == 2       \* type-or-const parameters per declaration
MaxLifetimes == 2    \* lifetime parameters per declaration
MaxFields == 2       \* fields of a struct or union
MaxFnParams == 2     \* ordinary (non-receiver) parameters of a function

(***************************************************************************)
(* Generic helpers.                                                        *)
(***************************************************************************)
\* Option<T>: None is the empty sequence, Some(x) the one-element sequence.
None == <<>>
Some(x) == <<x>>
IsSome(o) == o /= <<>>
Unwrap(o) == o[1]

SeqsUpTo(S, n) == UNION {[1..k -> S] : k \in 0..n}

\* Result of a renderer: the chunks it wrote and whether it returned Ok(())
\* or panicked after writing them.
Ok(w) == [w |-> w, ok |-> TRUE]
Panic(w) == [w |-> w, ok |-> FALSE]
\* `a?; b`: run b after a, unless a did not return.
Then(a, b) == IF a.ok THEN [w |-> a.w \o b.w, ok |-> b.ok] ELSE a

RECURSIVE Flatten(_)
Flatten(ss) == IF ss = <<>> THEN <<>> ELSE Head(ss) \o Flatten(Tail(ss))

\* Number of chunks of s that are in S.
RECURSIVE CountIn(_, _)
CountIn(s, S) ==
    IF s = <<>> THEN 0
    ELSE (IF Head(s) \in S THEN 1 ELSE 0) + CountIn(Tail(s), S)

\* The chunks of s that are in S, in order.
RECURSIVE Project(_, _)
Project(s, S) ==
    IF s = <<>> THEN <<>>
    ELSE (IF Head(s) \in S THEN <<Head(s)>> ELSE <<>>) \o Project(Tail(s), S)

\* Index of the first chunk of s equal to c, 0 when there is none.
RECURSIVE IndexFrom(_, _, _)
IndexFrom(s, c, i) ==
    IF i > Len(s) THEN 0
    ELSE IF s[i] = c THEN i
    ELSE IndexFrom(s, c, i + 1)
IndexOf(s, c) == IndexFrom(s, c, 1)

(***************************************************************************)
(* Type references (hir_def::type_ref::TypeRef) and their leaf formatter.  *)
(***************************************************************************)
PathTy(segs) == [kind |-> "Path", segments |-> segs]
TupleTy(elems) == [kind |-> "Tuple", elems |-> elems]
RefTy(inner, lifetime, mut) ==
    [kind |-> "Reference", inner |-> inner, lifetime |-> lifetime, mut |-> mut]
ImplTraitTy(bounds) == [kind |-> "ImplTrait", bounds |-> bounds]

SelfTy == PathTy(<<"Self">>)
UnitTy == TupleTy(<<>>)
I32 == PathTy(<<"i32">>)
Bool == PathTy(<<"bool">>)
Foo == PathTy(<<"Foo">>)

\* Path::is_self_type: the path is the single segment `Self`.
is_self_type(p) == p.segments = <<"Self">>

RECURSIVE JoinStr(_, _)
JoinStr(ss, sep) ==
    IF ss = <<>> THEN ""
    ELSE IF Len(ss) = 1 THEN ss[1]
    ELSE ss[1] \o sep \o JoinStr(Tail(ss), sep)

\* Bounds of an opaque type (hir_def::type_ref::TypeBound): a trait path whose
\* segments may carry associated-type bindings, or a lifetime.
Binding(name, type_ref) == [name |-> name, type_ref |-> type_ref]
Segment(name, args_and_bindings) == [name |-> name, args_and_bindings |-> args_and_bindings]
PathBound(segments) == [kind |-> "Path", segments |-> segments]
LifetimeBound(name) == [kind |-> "Lifetime", name |-> name]

\* TypeRef::hir_fmt and TypeBound::hir_fmt, the type-expression formatter:
\* one chunk, the text of the type or bound.
RECURSIVE TypeText(_)
RECURSIVE BoundText(_)
BindingText(b) ==
    b.name \o (IF IsSome(b.type_ref) THEN " = " \o TypeText(Unwrap(b.type_ref)) ELSE "")
SegmentText(seg) ==
    seg.name \o (IF IsSome(seg.args_and_bindings)
                 THEN LET bs == Unwrap(seg.args_and_bindings)
                      IN "<" \o JoinStr([i \in 1..Len(bs) |-> BindingText(bs[i])], ", ") \o ">"
                 ELSE "")
BoundText(b) ==
    IF b.kind = "Lifetime" THEN b.name
    ELSE JoinStr([i \in 1..Len(b.segments) |-> SegmentText(b.segments[i])], "::")
TypeText(ty) ==
    CASE ty.kind = "Path" -> JoinStr(ty.segments, "::")
      [] ty.kind = "Tuple" ->
            "(" \o JoinStr([i \in 1..Len(ty.elems) |-> TypeText(ty.elems[i])], ", ") \o ")"
      [] ty.kind = "Reference" ->
            "&" \o (IF IsSome(ty.lifetime) THEN Unwrap(ty.lifetime) \o " " ELSE "")
                \o (IF ty.mut THEN "mut " ELSE "") \o TypeText(ty.inner)
      [] ty.kind = "ImplTrait" ->
            "impl " \o JoinStr([i \in 1..Len(ty.bounds) |-> BoundText(ty.bounds[i])], " + ")

TypeRefFmt(ty) == Ok(<<TypeText(ty)>>)

(***************************************************************************)
(* Generic parameters (hir_def::generics).                                 *)
(***************************************************************************)
TypeParamData(name, provenance, default) ==
    [kind |-> "TypeParamData", name |-> name, provenance |-> provenance, default |-> default]
ConstParamData(name, ty, default) ==
    [kind |-> "ConstParamData", name |-> name, ty |-> ty, default |-> default]

\* TypeOrConstParamData::name(): Option<&Name>; a const parameter always has one.
ParamName(p) == IF p.kind = "TypeParamData" THEN p.name ELSE Some(p.name)
IsConstParam(p) == p.kind = "ConstParamData"
IsTypeParam(p) == p.kind = "TypeParamData"

TypeTarget(ty) == [kind |-> "TypeRef", ty |-> ty]
ParamTarget(id) == [kind |-> "TypeOrConstParam", id |-> id]

TypeBoundPred(target, bound) == [kind |-> "TypeBound", target |-> target, bound |-> bound]
LifetimePred(target, bound) == [kind |-> "Lifetime", target |-> target, bound |-> bound]
ForLifetimePred(lifetimes, target, bound) ==
    [kind |-> "ForLifetime", lifetimes |-> lifetimes, target |-> target, bound |-> bound]

GenericParams(lifetimes, type_or_consts, where_predicates) ==
    [lifetimes |-> lifetimes, type_or_consts |-> type_or_consts,
     where_predicates |-> where_predicates]

(***************************************************************************)
(* write_generic_params                                                    *)
(***************************************************************************)
\* The early return: nothing to show between `<` and `>`.
NoExplicitGenerics(p) ==
    /\ p.lifetimes = <<>>
    /\ \A i \in 1..Len(p.type_or_consts) : ~IsConstParam(p.type_or_consts[i])
    /\ \A i \in 1..Len(p.type_or_consts) :
          IsTypeParam(p.type_or_consts[i])
              => p.type_or_consts[i].provenance /= "TypeParamList"

\* Variant: every named type parameter is listed, whatever its provenance.
GenericEntry_AnyProvenance(ty) ==
    IF ~IsSome(ParamName(ty)) THEN <<>>
    ELSE IF IsTypeParam(ty) THEN
        <<Unwrap(ParamName(ty))>>
        \o (IF IsSome(ty.default) THEN <<" = ", TypeText(Unwrap(ty.default))>> ELSE <<>>)
    ELSE <<"const ", Unwrap(ParamName(ty)), ": ", TypeText(ty.ty)>>
         \o (IF IsSome(ty.default) THEN <<" = ", Unwrap(ty.default)>> ELSE <<>>)

\* What one type-or-const entry writes after its delimiter; <<>> when the
\* entry is skipped (no name, or a type parameter not from the parameter list).
GenericEntry(ty) ==
    IF ~IsSome(ParamName(ty)) THEN <<>>
    ELSE IF IsTypeParam(ty) THEN
        IF ty.provenance /= "TypeParamList" THEN <<>>
        ELSE <<Unwrap(ParamName(ty))>>
             \o (IF IsSome(ty.default) THEN <<" = ", TypeText(Unwrap(ty.default))>> ELSE <<>>)
    ELSE <<"const ", Unwrap(ParamName(ty)), ": ", TypeText(ty.ty)>>
         \o (IF IsSome(ty.default) THEN <<" = ", Unwrap(ty.default)>> ELSE <<>>)

\* The entries written, in order: lifetimes, then the type-or-const entries
\* that are not skipped.
GenericEntries(p) ==
    [i \in 1..Len(p.lifetimes) |-> <<p.lifetimes[i]>>]
    \o SelectSeq([i \in 1..Len(p.type_or_consts) |-> GenericEntry(p.type_or_consts[i])],
                 LAMBDA e : e /= <<>>)

\* delim: nothing before the first entry, ", " before every later one.
RECURSIVE Delimited(_, _)
Delimited(entries, first) ==
    IF entries = <<>> THEN <<>>
    ELSE (IF first THEN <<>> ELSE <<", ">>) \o Head(entries) \o Delimited(Tail(entries), FALSE)

write_generic_params(p) ==
    IF NoExplicitGenerics(p) THEN Ok(<<>>)
    ELSE Ok(<<"<">> \o Delimited(GenericEntries(p), TRUE) \o <<">">>)

(***************************************************************************)
(* write_where_clause                                                      *)
(***************************************************************************)
is_unnamed_type_target(p, target) ==
    IF target.kind = "TypeRef" THEN FALSE
    ELSE ~IsSome(ParamName(p.type_or_consts[target.id]))

\* The predicates that are skipped: type bounds on an unnamed parameter.
IsHidden(p, pred) ==
    pred.kind = "TypeBound" /\ is_unnamed_type_target(p, pred.target)

\* Variant: the clause is emitted whenever the predicate list is not empty.
has_displayable_predicate_NonEmpty(p) == p.where_predicates /= <<>>

has_displayable_predicate(p) ==
    \E i \in 1..Len(p.where_predicates) : ~IsHidden(p, p.where_predicates[i])

write_target(p, target) ==
    IF target.kind = "TypeRef" THEN <<TypeText(target.ty)>>
    ELSE IF IsSome(ParamName(p.type_or_consts[target.id]))
         THEN <<Unwrap(ParamName(p.type_or_consts[target.id]))>>
         ELSE <<"{unnamed}">>

new_predicate(pred_idx) == IF pred_idx = 1 THEN <<"\n    ">> ELSE <<",\n    ">>

\* Variant: grouping by target identity, against any earlier predicate.
SamePrev_AnyEarlier(p, pred_idx) ==
    \E j \in 1..(pred_idx - 1) :
        LET pred == p.where_predicates[pred_idx]
            prev == p.where_predicates[j]
        IN /\ prev.kind = pred.kind
           /\ prev.target = pred.target
           /\ pred.kind = "ForLifetime" => prev.lifetimes = pred.lifetimes

\* Whether the match on prev_pred succeeds, so that the predicate continues
\* the previous one with " + ".
SamePrev(p, pred_idx) ==
    /\ pred_idx > 1
    /\ LET pred == p.where_predicates[pred_idx]
           prev == p.where_predicates[pred_idx - 1]
       IN /\ prev.kind = pred.kind
          /\ prev.target = pred.target
          /\ pred.kind = "ForLifetime" => prev.lifetimes = pred.lifetimes

\* One iteration of the loop over where_predicates (pred_idx is 1-based).
WherePredicate(p, pred_idx) ==
    LET pred == p.where_predicates[pred_idx] IN
    IF IsHidden(p, pred) THEN <<>>
    ELSE IF pred.kind = "TypeBound" THEN
        (IF SamePrev(p, pred_idx) THEN <<" + ">>
         ELSE new_predicate(pred_idx) \o write_target(p, pred.target) \o <<": ">>)
        \o <<pred.bound>>
    ELSE IF pred.kind = "Lifetime" THEN
        IF SamePrev(p, pred_idx) THEN <<" + ", pred.bound>>
        ELSE new_predicate(pred_idx) \o <<pred.target, ": ", pred.bound>>
    ELSE
        (IF SamePrev(p, pred_idx) THEN <<" + ">>
         ELSE new_predicate(pred_idx) \o <<"for<">>
              \o Delimited([i \in 1..Len(pred.lifetimes) |-> <<pred.lifetimes[i]>>], TRUE)
              \o <<"> ">> \o write_target(p, pred.target) \o <<": ">>)
        \o <<pred.bound>>

write_where_clause(p) ==
    IF ~has_displayable_predicate(p) THEN Ok(<<>>)
    ELSE Ok(<<"\nwhere">>
            \o Flatten([i \in 1..Len(p.where_predicates) |-> WherePredicate(p, i)])
            \o <<",">>)

(***************************************************************************)
(* write_visibility (hir_ty): the visibility's text, nothing when private. *)
(***************************************************************************)
write_visibility(vis) == IF vis = "" THEN Ok(<<>>) ELSE Ok(<<vis>>)

(***************************************************************************)
(* SelfParam::hir_fmt                                                      *)
(***************************************************************************)
\* Variant: every reference is taken for a reference to Self.
SelfParamFmt_AnyReference(d) ==
    IF d.params = <<>> THEN Panic(<<>>)
    ELSE LET param == d.params[1].ty IN
         IF param.kind = "Path" /\ is_self_type(param) THEN Ok(<<"self">>)
         ELSE IF param.kind = "Reference"
         THEN Ok(<<"&">>
                 \o (IF IsSome(param.lifetime) THEN <<Unwrap(param.lifetime), " ">> ELSE <<>>)
                 \o (IF param.mut THEN <<"mut ">> ELSE <<>>)
                 \o <<"self">>)
         ELSE Then(Ok(<<"self: ">>), TypeRefFmt(param))

SelfParamFmt(d) ==
    IF d.params = <<>> THEN Panic(<<>>)          \* data.params.first().unwrap()
    ELSE LET param == d.params[1].ty IN
         IF param.kind = "Path" /\ is_self_type(param) THEN Ok(<<"self">>)
         ELSE IF /\ param.kind = "Reference"
                 /\ param.inner.kind = "Path"
                 /\ is_self_type(param.inner)
         THEN Ok(<<"&">>
                 \o (IF IsSome(param.lifetime) THEN <<Unwrap(param.lifetime), " ">> ELSE <<>>)
                 \o (IF param.mut THEN <<"mut ">> ELSE <<>>)
                 \o <<"self">>)
         ELSE Then(Ok(<<"self: ">>), TypeRefFmt(param))

(***************************************************************************)
(* Function::hir_fmt                                                       *)
(***************************************************************************)
\* Variant: `async` is written before `const`.
FnQualifiers_AsyncBeforeConst(d) ==
    (IF d.has_default_kw THEN <<"default ">> ELSE <<>>)
    \o (IF d.has_async_kw THEN <<"async ">> ELSE <<>>)
    \o (IF d.has_const_kw THEN <<"const ">> ELSE <<>>)
    \o (IF d.is_unsafe_to_call THEN <<"unsafe ">> ELSE <<>>)

\* The qualifier keywords, each written when its flag is set.
FnQualifiers(d) ==
    (IF d.has_default_kw THEN <<"default ">> ELSE <<>>)
    \o (IF d.has_const_kw THEN <<"const ">> ELSE <<>>)
    \o (IF d.has_async_kw THEN <<"async ">> ELSE <<>>)
    \o (IF d.is_unsafe_to_call THEN <<"unsafe ">> ELSE <<>>)

FnAbi(d) == IF IsSome(d.abi) THEN <<"extern \"", Unwrap(d.abi), "\" ">> ELSE <<>>

\* One ordinary parameter: delimiter, `NAME: ` or `_: `, type.
FnParam(param, first) ==
    (IF ~first THEN <<", ">> ELSE <<>>)
    \o (IF IsSome(param.local) THEN <<Unwrap(param.local), ": ">> ELSE <<"_: ">>)
    \o <<TypeText(param.ty)>>

\* The loop over data.params after skip(skip_self).
RECURSIVE FnParamsFrom(_, _, _)
FnParamsFrom(ps, i, first) ==
    IF i > Len(ps) THEN <<>>
    ELSE FnParam(ps[i], first) \o FnParamsFrom(ps, i + 1, FALSE)

\* From `(` to `)`: receiver, ordinary parameters, variadic marker.
FnParamList(d) ==
    LET self_w == IF d.has_self_param THEN SelfParamFmt(d) ELSE Ok(<<>>)
        skip_self == IF d.has_self_param THEN 1 ELSE 0
    IN Then(Then(Ok(<<"(">>), self_w),
            Ok(FnParamsFrom(d.params, skip_self + 1, ~d.has_self_param)
               \o (IF d.is_varargs THEN <<", ...">> ELSE <<>>)
               \o <<")">>))

\* The `ugly pattern match` that strips the Future trait of an async fn:
\* Some(type) when every index and unwrap on the way succeeds, None when
\* one of them (or one of the two panic! arms) panics.
AsyncRetType(ret_type) ==
    IF ret_type.kind /= "ImplTrait" THEN None
    ELSE IF ret_type.bounds = <<>> THEN None                         \* bounds[0]
    ELSE LET bound == ret_type.bounds[1] IN
         IF bound.kind /= "Path" THEN None
         ELSE IF bound.segments = <<>> THEN None                     \* last().unwrap()
         ELSE LET seg == bound.segments[Len(bound.segments)] IN
              IF ~IsSome(seg.args_and_bindings) THEN None            \* .unwrap()
              ELSE LET bindings == Unwrap(seg.args_and_bindings) IN
                   IF bindings = <<>> THEN None                      \* bindings[0]
                   ELSE bindings[1].type_ref                         \* .unwrap()

\* Variant: the declared return type is used for async functions too.
FnRetType_Declared(d) == Some(d.ret_type)

\* ret_type of the `let`: Some(effective type), or None when it panics.
FnRetType(d) ==
    IF ~d.has_async_kw THEN Some(d.ret_type) ELSE AsyncRetType(d.ret_type)

\* The match on ret_type: nothing for the empty tuple, else ` -> TYPE`.
FnRet(d) ==
    IF ~IsSome(FnRetType(d)) THEN Panic(<<>>)
    ELSE LET ret_type == Unwrap(FnRetType(d)) IN
         IF ret_type.kind = "Tuple" /\ ret_type.elems = <<>> THEN Ok(<<>>)
         ELSE Ok(<<" -> ", TypeText(ret_type)>>)

FunctionFmt(d, p) ==
    Then(write_visibility(d.vis),
    Then(Ok(FnQualifiers(d) \o FnAbi(d) \o <<"fn ", d.name>>),
    Then(write_generic_params(p),
    Then(FnParamList(d),
    Then(FnRet(d),
         write_where_clause(p))))))

(***************************************************************************)
(* Field::hir_fmt, Struct::hir_fmt, Union::hir_fmt                         *)
(***************************************************************************)
FieldFmt(field) ==
    Then(write_visibility(field.vis), Ok(<<field.name, ": ", TypeText(field.ty)>>))

\* The tuple-struct loop: field types, ", " while another field follows.
RECURSIVE TupleFields(_)
TupleFields(fields) ==
    IF fields = <<>> THEN <<>>
    ELSE <<TypeText(Head(fields).ty)>>
         \o (IF Tail(fields) /= <<>> THEN <<", ">> ELSE <<>>)
         \o TupleFields(Tail(fields))

\* The loop of a record body: one ` FIELD,\n` line per field.
RECURSIVE FieldLines(_)
FieldLines(fields) ==
    IF fields = <<>> THEN <<>>
    ELSE <<"    ">> \o FieldFmt(Head(fields)).w \o <<",\n">> \o FieldLines(Tail(fields))

\* Variant: a record body without fields writes nothing.
StructRecordBody_NoEmptyCase(fields) ==
    IF fields /= <<>> THEN <<" {\n">> \o FieldLines(fields) \o <<"}">>
    ELSE <<>>

StructRecordBody(fields) ==
    IF fields = <<>> THEN <<" {}">>
    ELSE <<" {\n">> \o FieldLines(fields) \o <<"}">>

StructFmt(d, p) ==
    Then(write_visibility(d.vis),
    Then(Ok(<<"struct ", d.name>>),
    Then(write_generic_params(p),
    Then(Ok(IF d.kind = "Tuple"
            THEN <<"(">> \o TupleFields(d.fields) \o <<");">>
            ELSE <<>>),
    Then(write_where_clause(p),
         Ok(IF d.kind = "Record" THEN StructRecordBody(d.fields) ELSE <<>>))))))

UnionBody(fields) ==
    IF fields /= <<>> THEN <<" {\n">> \o FieldLines(fields) \o <<"}">>
    ELSE <<>>

UnionFmt(d, p) ==
    Then(write_visibility(d.vis),
    Then(Ok(<<"union ", d.name>>),
    Then(write_generic_params(p),
    Then(write_where_clause(p),
         Ok(UnionBody(d.fields))))))

(***************************************************************************)
(* The declarations rendered: the metadata Init draws from.                *)
(***************************************************************************)
Visibilities == {"", "pub "}

\* Type parameters written in the parameter list are named; the parameter
\* of an argument-position `impl Trait` has no name; a trait's Self is named.
T == TypeParamData(Some("T"), "TypeParamList", None)
U == TypeParamData(Some("U"), "TypeParamList", Some(I32))
Unnamed == TypeParamData(None, "ArgumentImplTrait", None)
TraitSelf == TypeParamData(Some("Self"), "TraitSelf", None)
ConstN == ConstParamData("N", PathTy(<<"usize">>), None)
ConstM == ConstParamData("M", Bool, Some("true"))
TypeOrConsts == {T, U, Unnamed, TraitSelf, ConstN, ConstM}
LifetimeNames == {"'a", "'b"}
ParamNames == {"T", "U", "Self", "N", "M"}

\* Parameter lists for write_generic_params (no predicates).
GenericsInputs ==
    {GenericParams(ls, tcs, <<>>) :
        ls \in SeqsUpTo(LifetimeNames, MaxLifetimes), tcs \in SeqsUpTo(TypeOrConsts, MaxParams)}

\* Predicates for write_where_clause, over the parameters <T, U, impl Trait>.
WhereTypeOrConsts == <<T, U, Unnamed>>
WhereTargets == {ParamTarget(i) : i \in 1..Len(WhereTypeOrConsts)} \cup {TypeTarget(Foo)}
BoundNames == {"A", "B", "C"}
WherePredicates ==
    {TypeBoundPred(t, b) : t \in WhereTargets, b \in BoundNames}
    \cup {LifetimePred(t, b) : t \in LifetimeNames, b \in {"'c", "'d"}}
    \cup {ForLifetimePred(ls, t, "A") : ls \in {<<"'a", "'b">>, <<"'b", "'a">>}, t \in WhereTargets}
WhereInputs ==
    {GenericParams(<<>>, WhereTypeOrConsts, ps) : ps \in SeqsUpTo(WherePredicates, MaxPreds)}

\* Generics of the declarations rendered as a whole.
NoGenerics == GenericParams(<<>>, <<>>, <<>>)
DeclGenerics ==
    {NoGenerics,
     GenericParams(<<"'a">>, <<T>>, <<TypeBoundPred(ParamTarget(1), "A")>>),
     GenericParams(<<>>, <<Unnamed, T>>,
                   <<TypeBoundPred(ParamTarget(1), "A"), TypeBoundPred(ParamTarget(2), "B")>>)}

\* Declared types of a receiver.
Paths == {SelfTy, Foo, PathTy(<<"Self", "Item">>)}
References == {RefTy(inner, lt, mut) : inner \in Paths, lt \in {None, Some("'a")}, mut \in BOOLEAN}
ReceiverTypes == Paths \cup References \cup {RefTy(RefTy(SelfTy, None, FALSE), None, FALSE), UnitTy}

\* Ordinary parameters: with a local binding name or anonymous.
FnParams == {[local |-> l, ty |-> I32] : l \in {None, Some("x")}}
FnParamLists == SeqsUpTo(FnParams, MaxFnParams)
SelfParamLists ==
    {<<[local |-> Some("self"), ty |-> ty]>> \o ps : ty \in ReceiverTypes, ps \in FnParamLists}
    \cup {<<>>}

SelfParamInputs == {[params |-> ps] : ps \in SelfParamLists}

\* Declared return types: plain ones, the desugaring of an async fn's
\* return type, and opaque types of every other shape.
Output(ty) == Binding("Output", Some(ty))
Future(bindings) ==
    PathBound(<<Segment("core", None), Segment("future", None), Segment("Future", bindings)>>)
FutureOf(ty) == ImplTraitTy(<<Future(Some(<<Output(ty)>>))>>)
Send == PathBound(<<Segment("Send", None)>>)
WellShapedRetTypes == {FutureOf(UnitTy), FutureOf(I32)}
RetTypes ==
    {UnitTy, I32, TupleTy(<<I32, Bool>>)}
    \cup WellShapedRetTypes
    \cup {ImplTraitTy(<<>>),
          ImplTraitTy(<<Future(Some(<<Output(I32)>>)), Send>>),
          ImplTraitTy(<<Future(Some(<<Output(UnitTy)>>)), Send>>),
          ImplTraitTy(<<Future(Some(<<Output(I32), Binding("Extra", Some(Bool))>>))>>),
          ImplTraitTy(<<Future(None)>>),
          ImplTraitTy(<<Future(Some(<<>>))>>),
          ImplTraitTy(<<Future(Some(<<Binding("Output", None)>>))>>),
          ImplTraitTy(<<LifetimeBound("'a")>>),
          ImplTraitTy(<<PathBound(<<>>)>>)}

FunctionReceivers == {SelfTy, RefTy(SelfTy, Some("'a"), TRUE), Foo}
FunctionInputs ==
    {[vis |-> "pub ", name |-> "f", abi |-> abi,
      has_default_kw |-> q[1], has_const_kw |-> q[2], has_async_kw |-> q[3],
      is_unsafe_to_call |-> q[4],
      has_self_param |-> recv /= None,
      params |-> (IF recv /= None THEN <<[local |-> Some("self"), ty |-> Unwrap(recv)]>> ELSE <<>>)
                 \o ps,
      is_varargs |-> va, ret_type |-> ret] :
        abi \in {None, Some("C")}, q \in [1..4 -> BOOLEAN],
        recv \in {None} \cup {Some(ty) : ty \in FunctionReceivers},
        ps \in FnParamLists, va \in BOOLEAN, ret \in RetTypes}

Fields ==
    {[vis |-> "", name |-> "a", ty |-> I32], [vis |-> "pub ", name |-> "b", ty |-> Bool]}
FieldLists == SeqsUpTo(Fields, MaxFields)
StructInputs ==
    {[vis |-> v, name |-> "Foo", kind |-> k, fields |-> fs] :
        v \in Visibilities, k \in {"Record", "Tuple"}, fs \in FieldLists}
    \cup {[vis |-> v, name |-> "Foo", kind |-> "Unit", fields |-> <<>>] : v \in Visibilities}
UnionInputs ==
    {[vis |-> v, name |-> "Foo", fields |-> fs] : v \in Visibilities, fs \in FieldLists}

NoData == [none |-> TRUE]

(***************************************************************************)
(* The state machine.                                                      *)
(***************************************************************************)
Init ==
    /\ out = <<>>
    /\ pc = "start"
    /\ fail_at = 0
    /\ writes = 0
    /\ \/ def = "write_where_clause" /\ params \in WhereInputs /\ data = NoData
       \/ def = "write_generic_params" /\ params \in GenericsInputs /\ data = NoData
       \/ def = "SelfParam" /\ params = NoGenerics /\ data \in SelfParamInputs
       \/ def = "Function" /\ params \in DeclGenerics /\ data \in FunctionInputs
       \/ def = "Struct" /\ params \in DeclGenerics /\ data \in StructInputs
       \/ def = "Union" /\ params \in DeclGenerics /\ data \in UnionInputs

\* Variant: the error of a failed write is dropped and the call goes on.
RECURSIVE WriteAll_IgnoreError(_, _, _)
WriteAll_IgnoreError(w, i, fail) ==
    IF i > Len(w) THEN [written |-> <<>>, attempts |-> 0, err |-> FALSE]
    ELSE LET rest == WriteAll_IgnoreError(w, i + 1, fail)
         IN [written |-> (IF i = fail THEN <<>> ELSE <<w[i]>>) \o rest.written,
             attempts |-> rest.attempts + 1,
             err |-> rest.err \/ i = fail]

\* The write calls of a renderer, from the i-th on, each followed by `?`:
\* a write the sink accepts appends its chunk, the write the sink fails on
\* appends nothing and returns the error from the renderer.
RECURSIVE WriteAll(_, _, _)
WriteAll(w, i, fail) ==
    IF i > Len(w) THEN [written |-> <<>>, attempts |-> 0, err |-> FALSE]
    ELSE IF i = fail THEN [written |-> <<>>, attempts |-> 1, err |-> TRUE]
    ELSE LET rest == WriteAll(w, i + 1, fail)
         IN [written |-> <<w[i]>> \o rest.written,
             attempts |-> rest.attempts + 1,
             err |-> rest.err]

\* The call runs to its end: the sink holds what was written, and the call
\* has returned Ok(()), returned the sink's error, or panicked.
Return(r) ==
    LET s == WriteAll(r.w, 1, fail_at) IN
    /\ out' = out \o s.written
    /\ writes' = writes + s.attempts
    /\ pc' = IF s.err THEN "failed" ELSE IF r.ok THEN "done" ELSE "panicked"
    /\ UNCHANGED <<def, params, data, fail_at>>

WriteWhereClause ==
    /\ pc = "start" /\ def = "write_where_clause"
    /\ Return(write_where_clause(params))

WriteGenericParams ==
    /\ pc = "start" /\ def = "write_generic_params"
    /\ Return(write_generic_params(params))

SelfParamHirFmt ==
    /\ pc = "start" /\ def = "SelfParam"
    /\ Return(SelfParamFmt(data))

FunctionHirFmt ==
    /\ pc = "start" /\ def = "Function"
    /\ Return(FunctionFmt(data, params))

StructHirFmt ==
    /\ pc = "start" /\ def = "Struct"
    /\ Return(StructFmt(data, params))

UnionHirFmt ==
    /\ pc = "start" /\ def = "Union"
    /\ Return(UnionFmt(data, params))

Next ==
    \/ WriteWhereClause
    \/ WriteGenericParams
    \/ SelfParamHirFmt
    \/ FunctionHirFmt
    \/ StructHirFmt
    \/ UnionHirFmt

Spec == Init /\ [][Next]_vars

TypeOK ==
    /\ pc \in {"start", "done", "panicked", "failed"}
    /\ pc = "start" => out = <<>>

(***************************************************************************)
(* The renderers on a sink that may fail.                                  *)
(***************************************************************************)
\* What the renderer called on the declaration writes when no write fails.
Rendering(d, dat, p) ==
    CASE d = "write_where_clause" -> write_where_clause(p)
      [] d = "write_generic_params" -> write_generic_params(p)
      [] d = "SelfParam" -> SelfParamFmt(dat)
      [] d = "Function" -> FunctionFmt(dat, p)
      [] d = "Struct" -> StructFmt(dat, p)
      [] d = "Union" -> UnionFmt(dat, p)

SinkWhereInputs ==
    {GenericParams(<<>>, WhereTypeOrConsts, ps) : ps \in SeqsUpTo(WherePredicates, MaxPreds - 1)}
SinkFunctionInputs ==
    {d \in FunctionInputs :
        /\ ~d.has_default_kw /\ ~d.has_const_kw
        /\ d.ret_type \in {UnitTy, I32, FutureOf(I32), ImplTraitTy(<<>>)}}

\* The sink fails on any one write call of the rendering, or on none.
InitSink ==
    /\ out = <<>>
    /\ pc = "start"
    /\ writes = 0
    /\ \/ def = "write_where_clause" /\ params \in SinkWhereInputs /\ data = NoData
       \/ def = "write_generic_params" /\ params \in GenericsInputs /\ data = NoData
       \/ def = "SelfParam" /\ params = NoGenerics /\ data \in SelfParamInputs
       \/ def = "Function" /\ params \in DeclGenerics /\ data \in SinkFunctionInputs
       \/ def = "Struct" /\ params \in DeclGenerics /\ data \in StructInputs
       \/ def = "Union" /\ params \in DeclGenerics /\ data \in UnionInputs
    /\ fail_at \in 0..Len(Rendering(def, data, params).w)

SpecSink == InitSink /\ [][Next]_vars

\* C11: when a write to the sink fails, the renderer returns that error at
\* once: the failed write is the last one attempted, nothing written before
\* it is removed, and the sink holds exactly the chunks of the full
\* rendering that precede the failed write.
C11_SinkFailurePropagates ==
    pc /= "start" =>
        LET full == Rendering(def, data, params).w IN
        IF fail_at \in 1..Len(full)
        THEN /\ pc = "failed"
             /\ writes = fail_at
             /\ out = SubSeq(full, 1, fail_at - 1)
        ELSE /\ pc \in {"done", "panicked"}
             /\ writes = Len(full)
             /\ out = full

\* A function whose where-clause is cut short: the sink fails after
\* `\nwhere` was written and before the last write of the call.
C11_Witness ==
    /\ pc = "failed"
    /\ def = "Function"
    /\ CountIn(out, {"\nwhere"}) = 1
    /\ Len(out) = fail_at - 1
    /\ fail_at < Len(Rendering(def, data, params).w)

(***************************************************************************)
(* Properties of write_where_clause.                                       *)
(***************************************************************************)
WhereDone == def = "write_where_clause" /\ pc = "done"

\* A target that is a parameter-list entry without a name.
UnnamedTarget(p, target) ==
    /\ target.kind = "TypeOrConstParam"
    /\ p.type_or_consts[target.id].kind = "TypeParamData"
    /\ p.type_or_consts[target.id].name = None

\* A type bound whose target is a parameter-list entry without a name.
UnnamedTypeBound(p, pred) ==
    pred.kind = "TypeBound" /\ UnnamedTarget(p, pred.target)

Displayed(p) ==
    SelectSeq(p.where_predicates, LAMBDA pred : ~UnnamedTypeBound(p, pred))

\* The predicate at index i has the kind and target of the one right before
\* it in the list (and, when higher-ranked, the same lifetimes in order).
Adjacent(p, i) ==
    /\ i > 1
    /\ p.where_predicates[i - 1].kind = p.where_predicates[i].kind
    /\ p.where_predicates[i - 1].target = p.where_predicates[i].target
    /\ p.where_predicates[i].kind = "ForLifetime"
          => p.where_predicates[i - 1].lifetimes = p.where_predicates[i].lifetimes

TargetText(p, pred) ==
    IF pred.kind = "Lifetime" THEN <<pred.target>>
    ELSE (IF pred.kind = "ForLifetime"
          THEN <<"for<">> \o Delimited([k \in 1..Len(pred.lifetimes) |-> <<pred.lifetimes[k]>>], TRUE)
               \o <<"> ">>
          ELSE <<>>)
         \o write_target(p, pred.target)

\* What the grouping rule asks of the predicate at index i: ` + BOUND` when
\* it continues its predecessor, else a new group `TARGET: BOUND`.
Grouped(p, i) ==
    LET pred == p.where_predicates[i] IN
    IF UnnamedTypeBound(p, pred) THEN <<>>
    ELSE IF Adjacent(p, i) THEN <<" + ", pred.bound>>
    ELSE <<"\n    ">> \o TargetText(p, pred) \o <<": ", pred.bound>>

\* The sink with the separator before a group reduced to its indentation.
NoCommas(s) == [i \in 1..Len(s) |-> IF s[i] = ",\n    " THEN "\n    " ELSE s[i]]

T_A == TypeBoundPred(ParamTarget(1), "A")
T_B == TypeBoundPred(ParamTarget(1), "B")
U_C == TypeBoundPred(ParamTarget(2), "C")

\* C1: write_where_clause groups strictly by adjacency: a displayable
\* predicate is written as ` + BOUND` exactly when the predicate right before
\* it in the list has the same kind and target (and lifetime list), and
\* otherwise starts a new group with its target and `: `.  [T: A, T: B, U: C]
\* gives `T: A + B` then `,\n    U: C,`; [T: A, U: C, T: B] gives three groups.
C1_GroupsByAdjacency ==
    (WhereDone /\ out /= <<>>) =>
        /\ NoCommas(out) =
              <<"\nwhere">>
              \o Flatten([i \in 1..Len(params.where_predicates) |-> Grouped(params, i)])
              \o <<",">>
        /\ params.where_predicates = <<T_A, T_B, U_C>> =>
              out = <<"\nwhere", "\n    ", "T", ": ", "A", " + ", "B",
                      ",\n    ", "U", ": ", "C", ",">>
        /\ params.where_predicates = <<T_A, U_C, T_B>> =>
              out = <<"\nwhere", "\n    ", "T", ": ", "A", ",\n    ", "U", ": ", "C",
                      ",\n    ", "T", ": ", "B", ",">>

\* Same target twice, separated by another target: three groups are written.
C1_Witness ==
    /\ WhereDone
    /\ params.where_predicates = <<T_A, U_C, T_B>>
    /\ CountIn(out, {": "}) = 3 /\ CountIn(out, {" + "}) = 0

\* Number of groups the displayed predicates fall into.
NumGroups(p) ==
    Cardinality({i \in 1..Len(p.where_predicates) :
                    /\ ~UnnamedTypeBound(p, p.where_predicates[i])
                    /\ ~Adjacent(p, i)})

\* C2: whenever the clause is emitted, the text right after `\nwhere` is
\* `\n    ` and the first displayed target, every later group is introduced by
\* one `,` and `\n    `, and the clause ends with one trailing `,`.
C2_FirstGroupHasNoComma ==
    (WhereDone /\ out /= <<>>) =>
        /\ out[1] = "\nwhere"
        /\ out[2] = "\n    "
        /\ CountIn(out, {"\n    "}) = 1
        /\ CountIn(out, {",\n    "}) = NumGroups(params) - 1
        /\ out[Len(out)] = ","
        /\ CountIn(out, {","}) = 1

\* C3: a type bound on an unnamed parameter is never written; the clause is
\* emitted if and only if some predicate is not such a bound; when emitted it
\* starts with `\nwhere`, ends with `,` and renders at least one predicate.
C3_UnnamedElidedClauseNeverEmpty ==
    WhereDone =>
        /\ out /= <<>>
              <=> \E i \in 1..Len(params.where_predicates) :
                      ~UnnamedTypeBound(params, params.where_predicates[i])
        /\ out /= <<>> =>
              /\ out[1] = "\nwhere"
              /\ out[Len(out)] = ","
              /\ CountIn(out, {": ", " + "}) = Len(Displayed(params))
              /\ CountIn(out, {": ", " + "}) >= 1
              /\ CountIn(out, {"{unnamed}"}) =
                    Cardinality({j \in 1..Len(params.where_predicates) :
                        /\ params.where_predicates[j].kind = "ForLifetime"
                        /\ UnnamedTarget(params, params.where_predicates[j].target)
                        /\ ~Adjacent(params, j)})

\* A bound on the unnamed parameter before and after a displayed predicate:
\* the clause is emitted with that one predicate only.
C3_Witness ==
    /\ WhereDone
    /\ Len(params.where_predicates) = 3
    /\ UnnamedTypeBound(params, params.where_predicates[1])
    /\ ~UnnamedTypeBound(params, params.where_predicates[2])
    /\ UnnamedTypeBound(params, params.where_predicates[3])
    /\ CountIn(out, {": "}) = 1
    /\ out[Len(out)] = ","

(***************************************************************************)
(* Properties of write_generic_params.                                     *)
(***************************************************************************)
GenericsDone == def = "write_generic_params" /\ pc = "done"

\* A const parameter, or a type parameter written in the parameter list.
ExplicitParam(e) ==
    e.kind = "ConstParamData"
    \/ (e.kind = "TypeParamData" /\ e.provenance = "TypeParamList")

NameOf(e) == IF e.kind = "ConstParamData" THEN e.name ELSE e.name[1]

ListedNames(p) ==
    LET explicit == SelectSeq(p.type_or_consts, ExplicitParam)
    IN p.lifetimes \o [i \in 1..Len(explicit) |-> NameOf(explicit[i])]

\* C4: write_generic_params writes nothing exactly when there is no lifetime
\* parameter, no const parameter and no explicit type parameter; otherwise
\* the names between `<` and `>` are the lifetimes in order, then the const
\* and explicit type parameters in declaration order, and no synthetic one.
C4_GenericsListedOrOmitted ==
    GenericsDone =>
        IF /\ params.lifetimes = <<>>
           /\ SelectSeq(params.type_or_consts, ExplicitParam) = <<>>
        THEN out = <<>>
        ELSE /\ out[1] = "<"
             /\ out[Len(out)] = ">"
             /\ CountIn(out, {"<", ">"}) = 2
             /\ Project(out, LifetimeNames \cup ParamNames) = ListedNames(params)

\* A synthetic parameter before an explicit one, after a lifetime: `<'a, T>`.
C4_Witness ==
    /\ GenericsDone
    /\ params.lifetimes = <<"'a">>
    /\ params.type_or_consts = <<Unnamed, T>>
    /\ out = <<"<", "'a", ", ", "T", ">">>

(***************************************************************************)
(* Properties of Function::hir_fmt.                                        *)
(***************************************************************************)
FunctionCalled == def = "Function" /\ pc /= "start"

\* An opaque type with a single bound that is one trait path whose last
\* segment carries exactly one associated-type binding, with a type.
ExpectedAsyncShape(ty) ==
    /\ ty.kind = "ImplTrait"
    /\ Len(ty.bounds) = 1
    /\ ty.bounds[1].kind = "Path"
    /\ ty.bounds[1].segments /= <<>>
    /\ LET last == ty.bounds[1].segments[Len(ty.bounds[1].segments)] IN
       /\ last.args_and_bindings /= None
       /\ Len(last.args_and_bindings[1]) = 1
       /\ last.args_and_bindings[1][1].type_ref /= None

BoundType(ty) ==
    LET last == ty.bounds[1].segments[Len(ty.bounds[1].segments)]
    IN last.args_and_bindings[1][1].type_ref[1]

\* C5: an async function whose declared return type does not have the
\* expected shape makes Function::hir_fmt abort; the call never completes.
C5_MalformedAsyncAborts ==
    (FunctionCalled /\ data.has_async_kw /\ ~ExpectedAsyncShape(data.ret_type))
        => pc = "panicked"

\* What follows `)` up to the where-clause.
AfterParamList(s) ==
    LET from == IndexOf(s, ")") + 1
        where == IndexOf(s, "\nwhere")
    IN SubSeq(s, from, IF where = 0 THEN Len(s) ELSE where - 1)

\* C6: the effective return type is the declared one for a non-async
\* function and the unwrapped binding's type for an async one; nothing is
\* written between `)` and the where-clause exactly when it is the empty
\* tuple, and otherwise ` -> ` followed by the effective type.
C6_ReturnTypeElision ==
    (FunctionCalled /\ (data.has_async_kw => ExpectedAsyncShape(data.ret_type))) =>
        LET effective == IF data.has_async_kw THEN BoundType(data.ret_type)
                         ELSE data.ret_type
        IN /\ pc = "done"
           /\ AfterParamList(out) =
                 IF effective = UnitTy THEN <<>> ELSE <<" -> ", TypeText(effective)>>

\* An async fn returning (): declared `impl Future<Output = ()>`, no arrow.
C6_Witness ==
    /\ FunctionCalled /\ pc = "done"
    /\ data.has_async_kw
    /\ data.ret_type = FutureOf(UnitTy)
    /\ CountIn(out, {" -> "}) = 0

Keywords == <<"default ", "const ", "async ", "unsafe ">>
KeywordSet(d) ==
    [k \in {"default ", "const ", "async ", "unsafe "} |->
        CASE k = "default " -> d.has_default_kw
          [] k = "const " -> d.has_const_kw
          [] k = "async " -> d.has_async_kw
          [] k = "unsafe " -> d.is_unsafe_to_call]

\* C10: for each of the 16 combinations of default/const/async/unsafe, what
\* is written after the visibility and before `extern "ABI" ` / `fn ` is
\* exactly the set qualifiers, each once, in the order default, const, async,
\* unsafe.
C10_QualifierOrder ==
    FunctionCalled =>
        LET vis == IF data.vis = "" THEN 0 ELSE 1
            fn == IF data.abi /= None THEN IndexOf(out, "extern \"") ELSE IndexOf(out, "fn ")
        IN /\ fn > vis
           /\ SubSeq(out, vis + 1, fn - 1) =
                 SelectSeq(Keywords, LAMBDA k : KeywordSet(data)[k])
           /\ \A i \in 1..Len(out) : i > fn => out[i] \notin {"default ", "const ", "async ", "unsafe "}

\* All four qualifiers and an ABI.
C10_Witness ==
    /\ FunctionCalled
    /\ data.has_default_kw /\ data.has_const_kw /\ data.has_async_kw /\ data.is_unsafe_to_call
    /\ data.abi = Some("C")
    /\ SubSeq(out, 1, 9) = <<"pub ", "default ", "const ", "async ", "unsafe ",
                             "extern \"", "C", "\" ", "fn ">>

(***************************************************************************)
(* Properties of Struct::hir_fmt and Union::hir_fmt.                       *)
(***************************************************************************)
StructDone == def = "Struct" /\ pc = "done"
UnionDone == def = "Union" /\ pc = "done"

\* Visibility, keyword, name, generics.
Header(keyword, d, p) ==
    write_visibility(d.vis).w \o <<keyword, d.name>> \o write_generic_params(p).w

FieldTypes(fields) == Delimited([i \in 1..Len(fields) |-> <<TypeText(fields[i].ty)>>], TRUE)

RecordBody(fields) ==
    IF Len(fields) = 0 THEN <<" {}">>
    ELSE <<" {\n">>
         \o Flatten([i \in 1..Len(fields) |-> <<"    ">> \o FieldFmt(fields[i]).w \o <<",\n">>])
         \o <<"}">>

\* C7: a tuple struct writes `(` + field types + `);` after the generics and
\* before the where-clause; a record struct writes the where-clause and then
\* ` {}` without fields, else ` {\n`, a `    FIELD,\n` line per field and `}`;
\* a unit struct writes no body.
C7_StructBodyByShape ==
    StructDone =>
        LET header == Header("struct ", data, params)
            where == write_where_clause(params).w
        IN out = CASE data.kind = "Tuple" ->
                        header \o <<"(">> \o FieldTypes(data.fields) \o <<");">> \o where
                   [] data.kind = "Record" -> header \o where \o RecordBody(data.fields)
                   [] data.kind = "Unit" -> header \o where

\* A record struct without fields and with a where-clause: `... where ..., {}`.
C7_Witness ==
    /\ StructDone
    /\ data.kind = "Record" /\ data.fields = <<>>
    /\ params.where_predicates /= <<>>
    /\ out[Len(out)] = " {}"
    /\ out[Len(out) - 1] = ","

\* C8: for every field list, the empty one included, Union::hir_fmt writes
\* after the where-clause the body Struct::hir_fmt writes for a record struct
\* with the same fields.
C8_UnionBodyIsRecordBody ==
    UnionDone =>
        LET keyword == Len(write_visibility(data.vis).w) + 1
            struct == [vis |-> data.vis, name |-> data.name, kind |-> "Record",
                       fields |-> data.fields]
        IN [out EXCEPT ![keyword] = "struct "] = StructFmt(struct, params).w

(***************************************************************************)
(* Properties of SelfParam::hir_fmt.                                       *)
(***************************************************************************)
SelfParamDone == def = "SelfParam" /\ pc = "done"

\* C9: `self` when the first parameter's type is the Self path; `&`, the
\* lifetime and a space if any, `mut ` if mutable, `self` when it is a
\* reference to the Self path; `self: ` and the whole type otherwise.
C9_SelfParamForms ==
    SelfParamDone =>
        LET ty == data.params[1].ty IN
        out = IF ty = SelfTy THEN <<"self">>
              ELSE IF ty.kind = "Reference" /\ ty.inner = SelfTy
              THEN <<"&">>
                   \o (IF ty.lifetime /= None THEN <<ty.lifetime[1], " ">> ELSE <<>>)
                   \o (IF ty.mut THEN <<"mut ">> ELSE <<>>)
                   \o <<"self">>
              ELSE <<"self: ", TypeText(ty)>>

\* A reference to a type that is not Self: `self: &'a mut Foo`.
C9_Witness ==
    /\ SelfParamDone
    /\ data.params[1].ty = RefTy(Foo, Some("'a"), TRUE)
    /\ out = <<"self: ", "&'a mut Foo">>

(***************************************************************************)
(* The renderers on parameter lists in which a type parameter's name may   *)
(* be absent whatever its provenance (TypeParamData.name is an Option, and *)
(* write_generic_params tests name and provenance separately).             *)
(***************************************************************************)
Provenances == {"TypeParamList", "TraitSelf", "ArgumentImplTrait"}
NamelessExplicit == TypeParamData(None, "TypeParamList", None)
AnyNameTypeOrConsts ==
    {TypeParamData(n, pr, None) : n \in {None, Some("T"), Some("U")}, pr \in Provenances}
    \cup {U, ConstN, ConstM}
AnyNameGenericsInputs ==
    {GenericParams(ls, tcs, <<>>) :
        ls \in SeqsUpTo(LifetimeNames, MaxLifetimes),
        tcs \in SeqsUpTo(AnyNameTypeOrConsts, MaxParams)}
AnyNameWhereInputs ==
    {GenericParams(<<>>, <<T, NamelessExplicit, Unnamed>>, ps) :
        ps \in SeqsUpTo(WherePredicates, MaxPreds - 1)}
AnyNameDeclGenerics ==
    {GenericParams(<<>>, <<NamelessExplicit>>, <<>>),
     GenericParams(<<>>, <<NamelessExplicit, T>>, <<TypeBoundPred(ParamTarget(2), "A")>>)}

InitAnyName ==
    /\ out = <<>>
    /\ pc = "start"
    /\ fail_at = 0
    /\ writes = 0
    /\ \/ def = "write_where_clause" /\ params \in AnyNameWhereInputs /\ data = NoData
       \/ def = "write_generic_params" /\ params \in AnyNameGenericsInputs /\ data = NoData
       \/ def = "SelfParam" /\ params = NoGenerics /\ data \in SelfParamInputs
       \/ def = "Function" /\ params \in AnyNameDeclGenerics /\ data \in SinkFunctionInputs
       \/ def = "Struct" /\ params \in AnyNameDeclGenerics /\ data \in StructInputs
       \/ def = "Union" /\ params \in AnyNameDeclGenerics /\ data \in UnionInputs

SpecAnyName == InitAnyName /\ [][Next]_vars

\* C12: whenever write_generic_params writes `<`, some entry is written
\* before the closing `>` (never an empty `<>`), also when a type-or-const
\* entry's name is absent whatever its provenance; and `, ` is written only
\* between two entries.
C12_NoEmptyAngleBrackets ==
    (GenericsDone /\ out /= <<>>) =>
        /\ out[1] = "<"
        /\ out[Len(out)] = ">"
        /\ Len(out) > 2
        /\ \A i \in 1..Len(out) :
              out[i] = ", " =>
                  /\ i > 2 /\ i < Len(out) - 1
                  /\ out[i - 1] \notin {"<", ", "}
                  /\ out[i + 1] \notin {">", ", "}

(***************************************************************************)
(* The parameter list of Function::hir_fmt.                                *)
(***************************************************************************)
\* C13: in the parenthesized parameter list the separator `, ` occurs only
\* between two rendered items (receiver, ordinary parameter, `...`): what
\* directly follows `(` never starts with `, `, whatever the receiver, the
\* number of ordinary parameters and the variadic flag.
C13_SeparatorOnlyBetweenItems ==
    FunctionCalled =>
        LET open == IndexOf(out, "(")
            close == IndexOf(out, ")")
        IN /\ open > 0 /\ close > open
           /\ out[open + 1] \notin {", ", ", ..."}
           /\ \A i \in (open + 1)..(close - 1) :
                 out[i] = ", " => out[i + 1] \notin {", ", ", ...", ")"}

====
